---- MODULE Spec2Model ----
(***************************************************************************)
(* Revocation checking of package revoke: the package-level functions      *)
(* (VerifyCertificateError, revCheck, certIsRevokedCRL, certIsRevokedOCSP, *)
(* with the go1.19 and the legacy certIsRevokedCRL) and the Verifier       *)
(* methods (CertificateValid, CertificateRevoked, CertificateRevokedCRL,   *)
(* CertificateRevokedOCSP).  Every goroutine that calls in is a thread of  *)
(* the model; the CRL map and its mutex are shared by the threads of one   *)
(* owner (the package globals, or one Verifier).  The network and the      *)
(* clock are the environment.                                              *)
(***************************************************************************)
EXTENDS Integers, Sequences, FiniteSets, TLC

\* ------------------------------------------------------------------ bounds
MaxTime    == 2   \* the clock runs over 0..MaxTime
MaxDPs     == 2   \* CRL distribution points of a certificate
MaxOCSP    == 2   \* OCSP responder URLs of a certificate
MaxIssuers == 1   \* issuing-certificate URLs of a certificate

\* ------------------------------------------------------- program constants
StatusOK          == 200   \* http.StatusOK, compared in fetchOCSP
CRLStatusLimit    == 300   \* fetchCRL rejects resp.StatusCode >= 300

Threads == {1, 2}
Impls   == {"verifier", "package", "legacy"}
Owners  == {"verifier", "pkg"}
Times   == 0..MaxTime

\* ------------------------------------------------------------------- URLs
URL(scheme, host, n) == [scheme |-> scheme, host |-> host, n |-> n]
NoURL       == URL("", "", 0)
CRLUrl(n)   == URL("http", "crl", n)
LdapUrl     == URL("ldap", "dir", 1)
OCSPUrl(n)  == URL("http", "ocsp", n)
IssuerUrl(n) == URL("http", "ca", n)

HttpCRLUrls == {CRLUrl(1), CRLUrl(2)}
DPUrls  == HttpCRLUrls \cup {LdapUrl}

\* We can't handle LDAP certificates: true iff the URL's scheme is ldap.
\* (url.Parse fails only on a malformed string, which has scheme "".)
\* Variant: no URL is recognised as an LDAP URL.
ldapURLNever(uri) == FALSE

ldapURL(uri) == IF uri.scheme = "" THEN FALSE ELSE uri.scheme = "ldap"

\* ------------------------------------------------------------ certificates
SeqsUpTo(S, n) == UNION {[1..m -> S] : m \in 0..n}
OCSPLists   == {[x \in 1..m |-> OCSPUrl(x)] : m \in 0..MaxOCSP}
IssuerLists == {[x \in 1..m |-> IssuerUrl(x)] : m \in 0..MaxIssuers}

\* Validity windows <<NotBefore, NotAfter>>: one that spans the clock's
\* range and an empty one inside it.
Windows == {<<0, MaxTime>>, <<1, 1>>}

\* URLs are only compared with each other, so a list of distribution points
\* names its http URLs in order of first use: crl1 first, then crl2, ...
FirstUse(s) ==
    \A p \in 1..Len(s) :
        s[p] \in HttpCRLUrls =>
            \/ s[p].n = 1
            \/ \E q \in 1..(p - 1) : s[q] \in HttpCRLUrls /\ s[q].n >= s[p].n - 1
DPLists == {s \in SeqsUpTo(DPUrls, MaxDPs) : FirstUse(s)}

Certs == {c \in [SerialNumber          : {7},
                  NotBefore             : Times,
                  NotAfter              : Times,
                  CRLDistributionPoints : DPLists,
                  OCSPServer            : OCSPLists,
                  IssuingCertificateURL : IssuerLists] :
              /\ <<c.NotBefore, c.NotAfter>> \in Windows
              \* several distribution points or several responders, not both
              /\ Len(c.CRLDistributionPoints) <= 1 \/ Len(c.OCSPServer) <= 1}

\* -------------------------------------------------------- revocation lists
\* A parsed list: NextUpdate, the revoked serial numbers in list order, and
\* the CA whose key signed it.
List(nu, revoked, signer) == [NextUpdate |-> nu, revoked |-> revoked, signer |-> signer]
NoList == List(0, <<>>, "none")
Lists  == {List(nu, rv, "CA1") : nu \in {2}, rv \in {<<9>>, <<9, 7>>}}

\* A map slot: missing key, key with a nil pointer, key with a list.
Slot(state, crl) == [state |-> state, crl |-> crl]
Absent  == Slot("absent", NoList)
NilSlot == Slot("nil", NoList)

\* ------------------------------------------------------------------ errors
Err(kind, url) == [kind |-> kind, url |-> url]
Nil == Err("nil", NoURL)

\* ----------------------------------------------------------- HTTP answers
\* conn: the transport delivered a response; status: its status code;
\* readable: the body reader succeeds; body: what the bytes are.
Body(fmt, crl, ca, ocsp) == [fmt |-> fmt, crl |-> crl, ca |-> ca, ocsp |-> ocsp]
Garbage      == Body("garbage", NoList, "none", "none")
CRLBody(l)   == Body("crl", l, "none", "none")
CertBody(fmt, ca) == Body(fmt, NoList, ca, "none")
OCSPBody(fmt, s)  == Body(fmt, NoList, "none", s)

Resp(conn, status, readable, body) ==
    [conn |-> conn, status |-> status, readable |-> readable, body |-> body]
ConnFail   == Resp(FALSE, 0, FALSE, Garbage)
\* No answer: what net holds for a URL that may answer anything, and what a
\* thread holds before it has received an answer.
Unscripted == Resp(FALSE, -1, FALSE, Garbage)

CRLResponses ==
    {ConnFail, Resp(TRUE, 200, FALSE, Garbage), Resp(TRUE, 200, TRUE, Garbage),
     Resp(TRUE, 500, FALSE, Garbage)}
    \cup {Resp(TRUE, st, TRUE, CRLBody(l)) : st \in {200, 204, 500}, l \in Lists}

CertResponses ==
    {ConnFail, Resp(TRUE, 200, FALSE, Garbage), Resp(TRUE, 200, TRUE, Garbage),
     Resp(TRUE, 200, TRUE, CertBody("pem", "CA1")),
     Resp(TRUE, 404, TRUE, CertBody("der", "CA2"))}

OCSPStatuses    == {"good", "revoked", "unknown"}
OCSPResponses ==
    {ConnFail, Resp(TRUE, 500, TRUE, OCSPBody("response", "good")),
     Resp(TRUE, 200, FALSE, Garbage), Resp(TRUE, 200, TRUE, Garbage)}
    \cup {Resp(TRUE, 200, TRUE, OCSPBody("error", "unauthorized"))}
    \cup {Resp(TRUE, 200, TRUE, OCSPBody("response", s)) : s \in OCSPStatuses}

\* ------------------------------------------------------------ the fetchers
Got(err, val) == [err |-> err, val |-> val]

\* Verifier.fetch: client.Get, then the reader on the body.
fetch(url, r) ==
    IF ~r.conn THEN Err("transport", url)
    ELSE IF ~r.readable THEN Err("read", url)
    ELSE Nil

\* pem.Decode finds a block, or the bytes are DER; anything else fails to parse.
ParseCertificate(url, body) ==
    IF body.fmt \in {"pem", "der"} THEN Got(Nil, body.ca)
    ELSE Got(Err("parse", url), "none")

\* Verifier.fetchCert and the package's fetchRemote: no status check.
fetchCert(url, r) ==
    IF fetch(url, r) # Nil THEN Got(fetch(url, r), "none")
    ELSE ParseCertificate(url, r.body)

fetchRemote(url, r) ==
    IF ~r.conn THEN Got(Err("transport", url), "none")
    ELSE IF ~r.readable THEN Got(Err("read", url), "none")
    ELSE ParseCertificate(url, r.body)

ParseRevocationList(url, body) ==
    IF body.fmt = "crl" THEN Got(Nil, body.crl)
    ELSE Got(Err("parse", url), NoList)

\* Verifier.fetchCRL: body read first, then the status, then the parse.
VerifierFetchCRL(url, r) ==
    IF fetch(url, r) # Nil THEN Got(fetch(url, r), NoList)
    ELSE IF r.status >= CRLStatusLimit THEN Got(Err("status", url), NoList)
    ELSE ParseRevocationList(url, r.body)

\* The package's fetchCRL: status first, then the body read, then the parse.
PackageFetchCRL(url, r) ==
    IF ~r.conn THEN Got(Err("transport", url), NoList)
    ELSE IF r.status >= CRLStatusLimit THEN Got(Err("status", url), NoList)
    ELSE IF ~r.readable THEN Got(Err("read", url), NoList)
    ELSE ParseRevocationList(url, r.body)

\* The legacy fetchCRL (x509.ParseCRL): the same steps.
LegacyFetchCRL(url, r) ==
    IF ~r.conn THEN Got(Err("transport", url), NoList)
    ELSE IF r.status >= CRLStatusLimit THEN Got(Err("status", url), NoList)
    ELSE IF ~r.readable THEN Got(Err("read", url), NoList)
    ELSE ParseRevocationList(url, r.body)

\* Verifier.fetchOCSP and sendOCSPRequest: status must be 200; the known
\* error bodies and unparseable bodies are errors.
fetchOCSP(url, r) ==
    IF ~r.conn THEN Got(Err("transport", url), "none")
    ELSE IF r.status # StatusOK THEN Got(Err("status", url), "none")
    ELSE IF ~r.readable THEN Got(Err("read", url), "none")
    ELSE IF r.body.fmt = "error" THEN Got(Err(r.body.ocsp, url), "none")
    ELSE IF r.body.fmt = "response" THEN Got(Nil, r.body.ocsp)
    ELSE Got(Err("parse", url), "none")

\* crl.CheckSignatureFrom(issuer) / issuer.CheckCRLSignature(crl)
CheckSignatureFrom(crl, issuer) == crl.signer = issuer

\* Variant: a list never counts as expired.
HasExpiredNever(crl, t) == FALSE

\* pkix.CertificateList.HasExpired
HasExpired(crl, t) == ~(t < crl.NextUpdate)

\* The scan of the list for the certificate's serial number.
Listed(cert, crl) == \E x \in 1..Len(crl.revoked) : crl.revoked[x] = cert.SerialNumber

\* ------------------------------------------------------------------- state
VARIABLES
    impl,        \* per thread: which entry point it calls
    strict,      \* HardFail of the package, strict of the Verifier
    now,         \* the clock time.Now() reads
    net,         \* per URL: the scripted answer, or Unscripted (any answer)
    crls,        \* per owner: the CRL map (CRLSet, Verifier.crls)
    lockHolder,  \* per owner: the thread holding the mutex, 0 when free
    callers,     \* the threads that call in
    th           \* per thread: position, locals, verdicts and event log

vars == <<impl, strict, now, net, crls, lockHolder, callers, th>>

AllUrls == DPUrls \cup {OCSPUrl(n) : n \in 1..MaxOCSP} \cup {IssuerUrl(n) : n \in 1..MaxIssuers}

Verdict(revoked, ok, err) == [revoked |-> revoked, ok |-> ok, err |-> err]
NoVerdict == Verdict(FALSE, FALSE, Err("unset", NoURL))

Owner(t) == IF impl[t] = "verifier" THEN "verifier" ELSE "pkg"

Ev(op, url) == [op |-> op, url |-> url]

\* The locals of a call on certificate c, before its first step.
Frame(c, pc) ==
    [pc |-> pc, cert |-> c,
     tAfter |-> -1, tBefore |-> -1,
     di |-> 1, uri |-> NoURL, cached |-> Absent, ok |-> FALSE, crl |-> NoList,
     tFresh |-> -1, shouldFetchCRL |-> TRUE,
     after |-> "none", ii |-> 1, issuer |-> "none",
     oi |-> 1, req |-> 0, err |-> Nil, ans |-> Unscripted,
     crlRes |-> NoVerdict, ocspRes |-> NoVerdict, res |-> NoVerdict,
     log |-> <<>>]

Step(t, r) == th' = [th EXCEPT ![t] = r]
Logged(r, op, url) == [r EXCEPT !.log = Append(@, Ev(op, url))]

\* The answer of the network to a request for url, among the answers of its kind.
Answers(url, kind) == {r \in kind : net[url] = Unscripted \/ net[url] = r}

\* ------------------------------------------------- CertificateValid / Error
\* The caller enters CertificateValid (VerifyCertificateError).
Call(t) ==
    /\ th[t].pc \in {"idle", "done"}
    /\ t \in callers
    /\ Step(t, Frame(th[t].cert, "validAfter"))
    /\ UNCHANGED <<impl, strict, now, net, crls, lockHolder, callers>>

\* Variant: a certificate counts as expired only after its NotAfter instant.
ExpiredLate(t, cert) == t > cert.NotAfter

\* if !time.Now().Before(cert.NotAfter)
Expired(t, cert) == ~(t < cert.NotAfter)
\* else if !time.Now().After(cert.NotBefore)
Premature(t, cert) == ~(t > cert.NotBefore)

ValidAfter(t) ==
    LET r == th[t] IN
    /\ r.pc = "validAfter"
    /\ Step(t, IF Expired(now, r.cert)
               THEN [r EXCEPT !.tAfter = now, !.pc = "done",
                              !.res = Verdict(TRUE, TRUE, Err("expired", NoURL))]
               ELSE [r EXCEPT !.tAfter = now, !.pc = "validBefore"])
    /\ UNCHANGED <<impl, strict, now, net, crls, lockHolder, callers>>

ValidBefore(t) ==
    LET r == th[t] IN
    /\ r.pc = "validBefore"
    /\ Step(t, IF Premature(now, r.cert)
               THEN [r EXCEPT !.tBefore = now, !.pc = "done",
                              !.res = Verdict(TRUE, TRUE, Err("notyet", NoURL))]
               ELSE [r EXCEPT !.tAfter = -1, !.tBefore = now, !.pc = "dpLoop", !.di = 1])
    /\ UNCHANGED <<impl, strict, now, net, crls, lockHolder, callers>>

\* ------------------------------------------- CertificateRevoked / revCheck
\* The locals of the CRL check are dead once its verdict is consumed.
Leave(r) == [r EXCEPT !.tBefore = -1,
                      !.uri = NoURL, !.cached = Absent, !.ok = FALSE, !.crl = NoList,
                      !.tFresh = -1, !.shouldFetchCRL = TRUE, !.issuer = "none",
                      !.ii = 1, !.after = "none", !.ans = Unscripted,
                      !.crlRes = NoVerdict]

\* The head of the loop over cert.CRLDistributionPoints.
DpLoop(t) ==
    LET r == Leave(th[t])
        dps == r.cert.CRLDistributionPoints IN
    /\ th[t].pc = "dpLoop"
    /\ Step(t, IF r.di > Len(dps) THEN [r EXCEPT !.pc = "ocspStart"]
               ELSE IF ldapURL(dps[r.di]) THEN [r EXCEPT !.di = @ + 1]
               ELSE Logged([r EXCEPT !.pc = "crlLock", !.uri = dps[r.di]],
                           "enterCRL", dps[r.di]))
    /\ UNCHANGED <<impl, strict, now, net, crls, lockHolder, callers>>

\* Variant: an orchestrator that, when not strict, goes on to the next
\* distribution point after a failed CRL check.
AfterCRLSkipsFailure(r, v) ==
    IF ~v.ok /\ strict THEN [r EXCEPT !.pc = "done", !.res = Verdict(TRUE, FALSE, v.err)]
    ELSE IF v.ok /\ v.revoked THEN [r EXCEPT !.pc = "done", !.res = Verdict(TRUE, TRUE, v.err)]
    ELSE [r EXCEPT !.pc = "dpLoop", !.di = @ + 1]

\* Variant: an orchestrator that never promotes an OCSP failure to revoked.
AfterOCSPNoPromotion(r, v) ==
    IF ~v.ok THEN [r EXCEPT !.pc = "done", !.res = Verdict(FALSE, FALSE, v.err)]
    ELSE IF v.revoked THEN [r EXCEPT !.pc = "done", !.res = Verdict(TRUE, TRUE, v.err)]
    ELSE [r EXCEPT !.pc = "done", !.res = Verdict(FALSE, TRUE, Nil)]

\* What the orchestrator does with the verdict of one distribution point.
AfterCRL(r, v) ==
    IF ~v.ok THEN [r EXCEPT !.pc = "done",
                            !.res = Verdict(IF strict THEN TRUE ELSE FALSE, FALSE, v.err)]
    ELSE IF v.revoked THEN [r EXCEPT !.pc = "done", !.res = Verdict(TRUE, TRUE, v.err)]
    ELSE [r EXCEPT !.pc = "dpLoop", !.di = @ + 1]

\* What the orchestrator does with the verdict of the OCSP check.
AfterOCSP(r, v) ==
    IF ~v.ok THEN [r EXCEPT !.pc = "done",
                            !.res = Verdict(IF strict THEN TRUE ELSE FALSE, FALSE, v.err)]
    ELSE IF v.revoked THEN [r EXCEPT !.pc = "done", !.res = Verdict(TRUE, TRUE, v.err)]
    ELSE [r EXCEPT !.pc = "done", !.res = Verdict(FALSE, TRUE, Nil)]

\* --------------------------------- CertificateRevokedCRL / certIsRevokedCRL
\* Whether the mutex taken at entry is released right after the lookup
\* (crlLock.Unlock()) or only when the function returns (defer v.lock.Unlock()).
UnlocksAfterLookup(i) == i # "verifier"

\* v.lock.Lock() / crlLock.Lock()
CrlLock(t) ==
    LET r == th[t] IN
    /\ r.pc = "crlLock"
    /\ lockHolder[Owner(t)] = 0
    /\ lockHolder' = [lockHolder EXCEPT ![Owner(t)] = t]
    /\ Step(t, [r EXCEPT !.pc = "crlLookup"])
    /\ UNCHANGED <<impl, strict, now, net, crls, callers>>

\* crl, ok = v.crls[uri]; a nil entry counts as missing and is deleted.
CrlLookup(t) ==
    LET r    == th[t]
        slot == crls[Owner(t)][r.uri]
        r1   == Logged([r EXCEPT !.cached = slot, !.ok = (slot.state = "list"),
                                 !.crl = slot.crl,
                                 !.pc = IF UnlocksAfterLookup(impl[t])
                                        THEN "crlUnlock" ELSE "crlFresh"],
                       "cacheRead", r.uri) IN
    /\ r.pc = "crlLookup"
    /\ IF slot.state = "nil"
       THEN /\ crls' = [crls EXCEPT ![Owner(t)][r.uri] = Absent]
            /\ Step(t, Logged(r1, "cacheDelete", r.uri))
       ELSE /\ crls' = crls
            /\ Step(t, r1)
    /\ UNCHANGED <<impl, strict, now, net, lockHolder, callers>>

\* crlLock.Unlock() after the lookup (package-level functions only).
CrlUnlock(t) ==
    LET r == th[t] IN
    /\ r.pc = "crlUnlock"
    /\ lockHolder' = [lockHolder EXCEPT ![Owner(t)] = 0]
    /\ Step(t, [r EXCEPT !.pc = "crlFresh"])
    /\ UNCHANGED <<impl, strict, now, net, crls, callers>>

\* Variant: a cached list is used whatever its NextUpdate.
ShouldFetchWhenMissing(i, ok, crl, t) == ~ok

\* shouldFetchCRL: false only for a cached list with time.Now() before NextUpdate.
ShouldFetch(i, ok, crl, t) ==
    IF i = "legacy" THEN ~(ok /\ ~HasExpired(crl, t))
    ELSE ~(ok /\ t < crl.NextUpdate)

CrlFresh(t) ==
    LET r == th[t] IN
    /\ r.pc = "crlFresh"
    /\ Step(t, [r EXCEPT !.tFresh = now,
                         !.shouldFetchCRL = ShouldFetch(impl[t], r.ok, r.crl, now),
                         !.pc = "issLoop", !.after = "crlFetch",
                         !.ii = 1, !.issuer = "none"])
    /\ UNCHANGED <<impl, strict, now, net, crls, lockHolder, callers>>

\* ----------------------------------------------------- GetIssuer / getIssuer
\* The head of the loop over cert.IssuingCertificateURL: request the next URL,
\* or return the issuer found so far (nil) when the list is exhausted.
IssLoop(t) ==
    LET r    == th[t]
        urls == r.cert.IssuingCertificateURL IN
    /\ r.pc = "issLoop"
    /\ Step(t, IF r.ii > Len(urls) THEN [r EXCEPT !.pc = r.after]
               ELSE Logged([r EXCEPT !.pc = "issWait"], "getIssuer", urls[r.ii]))
    /\ UNCHANGED <<impl, strict, now, net, crls, lockHolder, callers>>

FetchIssuer(i, url, a) == IF i = "verifier" THEN fetchCert(url, a) ELSE fetchRemote(url, a)

\* The answer arrives: the first certificate that parses is the issuer.
IssRecv(t) ==
    LET r   == th[t]
        url == r.cert.IssuingCertificateURL[r.ii] IN
    /\ r.pc = "issWait"
    /\ \E a \in Answers(url, CertResponses) :
         LET g == FetchIssuer(impl[t], url, a) IN
         Step(t, IF g.err # Nil
                 THEN [r EXCEPT !.issuer = "none", !.ii = @ + 1, !.pc = "issLoop"]
                 ELSE [r EXCEPT !.issuer = g.val, !.pc = r.after])
    /\ UNCHANGED <<impl, strict, now, net, crls, lockHolder, callers>>

\* ------------------------------------------------- the fetch of the list
\* Variant: the check returns to the orchestrator without any unlock.
CrlExitKeepsLock(i, r, v) == AfterCRL([r EXCEPT !.crlRes = v], v)

\* The CRL check returns verdict v: the Verifier still has its deferred
\* Unlock to run; the package function is back in the orchestrator.
CrlExit(i, r, v) ==
    IF UnlocksAfterLookup(i) THEN AfterCRL([r EXCEPT !.crlRes = v], v)
    ELSE [r EXCEPT !.crlRes = v, !.pc = "crlReturn"]

\* if shouldFetchCRL { crl, err = fetchCRL(uri) ...
CrlFetch(t) ==
    LET r == th[t] IN
    /\ r.pc = "crlFetch"
    /\ Step(t, IF r.shouldFetchCRL
               THEN Logged([r EXCEPT !.pc = "crlWait"], "getCRL", r.uri)
               ELSE [r EXCEPT !.pc = "crlScan"])
    /\ UNCHANGED <<impl, strict, now, net, crls, lockHolder, callers>>

FetchCRL(i, url, a) ==
    IF i = "verifier" THEN VerifierFetchCRL(url, a)
    ELSE IF i = "package" THEN PackageFetchCRL(url, a)
    ELSE LegacyFetchCRL(url, a)

\* Variant: a fetched list is accepted without a look at its signature.
FetchedVerdictUnverified(url, g, issuer) ==
    IF g.err # Nil THEN Verdict(FALSE, FALSE, g.err) ELSE Verdict(FALSE, TRUE, Nil)

\* The verdict of a fetched list before it is stored: a fetch error or a
\* signature that does not verify against a resolved issuer ends the check.
FetchedVerdict(url, g, issuer) ==
    IF g.err # Nil THEN Verdict(FALSE, FALSE, g.err)
    ELSE IF issuer # "none" /\ ~CheckSignatureFrom(g.val, issuer)
         THEN Verdict(FALSE, FALSE, Err("signature", url))
    ELSE Verdict(FALSE, TRUE, Nil)

CrlRecv(t) ==
    LET r == th[t] IN
    /\ r.pc = "crlWait"
    /\ \E a \in Answers(r.uri, CRLResponses) :
         LET g == FetchCRL(impl[t], r.uri, a)
             v == FetchedVerdict(r.uri, g, r.issuer) IN
         Step(t, IF ~v.ok
                 THEN CrlExit(impl[t], [r EXCEPT !.ans = a], v)
                 ELSE [r EXCEPT !.crl = g.val, !.ans = a,
                                !.pc = IF UnlocksAfterLookup(impl[t])
                                       THEN "crlLock2" ELSE "crlStore"])
    /\ UNCHANGED <<impl, strict, now, net, crls, lockHolder, callers>>

\* crlLock.Lock() before the store (package-level functions only).
CrlLock2(t) ==
    LET r == th[t] IN
    /\ r.pc = "crlLock2"
    /\ lockHolder[Owner(t)] = 0
    /\ lockHolder' = [lockHolder EXCEPT ![Owner(t)] = t]
    /\ Step(t, [r EXCEPT !.pc = "crlStore"])
    /\ UNCHANGED <<impl, strict, now, net, crls, callers>>

\* Variant: the store leaves a nil entry.
StoredNil(crl) == NilSlot

\* The map entry the store leaves for the list.
Stored(crl) == Slot("list", crl)

\* v.crls[uri] = crl / CRLSet[url] = crl
CrlStore(t) ==
    LET r == th[t] IN
    /\ r.pc = "crlStore"
    /\ crls' = [crls EXCEPT ![Owner(t)][r.uri] = Stored(r.crl)]
    /\ Step(t, Logged([r EXCEPT !.pc = IF UnlocksAfterLookup(impl[t])
                                       THEN "crlUnlock2" ELSE "crlScan"],
                      "cacheWrite", r.uri))
    /\ UNCHANGED <<impl, strict, now, net, lockHolder, callers>>

\* crlLock.Unlock() after the store (package-level functions only).
CrlUnlock2(t) ==
    LET r == th[t] IN
    /\ r.pc = "crlUnlock2"
    /\ lockHolder' = [lockHolder EXCEPT ![Owner(t)] = 0]
    /\ Step(t, [r EXCEPT !.pc = "crlScan"])
    /\ UNCHANGED <<impl, strict, now, net, crls, callers>>

\* Variant: a scan that looks at the first entry of the list only.
ScanFirstEntry(cert, crl) ==
    IF Len(crl.revoked) > 0 /\ crl.revoked[1] = cert.SerialNumber
    THEN Verdict(TRUE, TRUE, Nil) ELSE Verdict(FALSE, TRUE, Nil)

\* The loop over the revoked entries of the list in hand.
ScanVerdict(cert, crl) ==
    IF Listed(cert, crl) THEN Verdict(TRUE, TRUE, Nil) ELSE Verdict(FALSE, TRUE, Nil)

CrlScan(t) ==
    LET r == th[t] IN
    /\ r.pc = "crlScan"
    /\ Step(t, CrlExit(impl[t], Logged(r, "scan", r.uri), ScanVerdict(r.cert, r.crl)))
    /\ UNCHANGED <<impl, strict, now, net, crls, lockHolder, callers>>

\* The deferred v.lock.Unlock() of the Verifier runs as the method returns.
CrlReturn(t) ==
    LET r == th[t] IN
    /\ r.pc = "crlReturn"
    /\ lockHolder' = [lockHolder EXCEPT ![Owner(t)] = 0]
    /\ Step(t, AfterCRL(r, r.crlRes))
    /\ UNCHANGED <<impl, strict, now, net, crls, callers>>

\* ------------------------------- CertificateRevokedOCSP / certIsRevokedOCSP
\* The OCSP check returns verdict v to the orchestrator.
OcspExit(r, v) ==
    AfterOCSP([r EXCEPT !.ocspRes = v, !.oi = 1,
                        !.req = 0, !.err = Nil, !.after = "none"], v)

\* ocsp.CreateRequest: it fails (0), or builds a request (1).
RequestOutcomes == {0, 1}

OcspStart(t) ==
    LET r  == th[t]
        r1 == Logged([r EXCEPT !.issuer = "none", !.ii = 1, !.oi = 1, !.req = 0,
                               !.err = Nil, !.ocspRes = NoVerdict],
                     "enterOCSP", NoURL) IN
    /\ r.pc = "ocspStart"
    /\ Step(t, IF Len(r.cert.OCSPServer) = 0
               THEN OcspExit(r1, Verdict(FALSE, TRUE, Nil))
               ELSE [r1 EXCEPT !.pc = "issLoop", !.after = "ocspReq"])
    /\ UNCHANGED <<impl, strict, now, net, crls, lockHolder, callers>>

\* Variant: the OCSP check goes on without an issuer.
IssuerNeverMissing(issuer) == FALSE

\* if issuer == nil
IssuerMissing(issuer) == issuer = "none"

\* if issuer == nil { return false, false, nil }; then ocsp.CreateRequest.
OcspReq(t) ==
    LET r == th[t] IN
    /\ r.pc = "ocspReq"
    /\ IF IssuerMissing(r.issuer)
       THEN Step(t, OcspExit(r, Verdict(FALSE, FALSE, Nil)))
       ELSE \E q \in RequestOutcomes :
              Step(t, IF q = 0
                      THEN OcspExit(r, Verdict(FALSE, FALSE, Err("request", NoURL)))
                      ELSE [r EXCEPT !.req = q, !.oi = 1, !.err = Nil, !.pc = "ocspLoop"])
    /\ UNCHANGED <<impl, strict, now, net, crls, lockHolder, callers>>

\* The head of the loop over the responder URLs; after the last one the
\* function returns its named results and the error variable.
OcspLoop(t) ==
    LET r    == th[t]
        urls == r.cert.OCSPServer IN
    /\ r.pc = "ocspLoop"
    /\ Step(t, IF r.oi > Len(urls)
               THEN OcspExit(r, Verdict(FALSE, FALSE, r.err))
               ELSE Logged([r EXCEPT !.pc = "ocspWait"], "ocsp", urls[r.oi]))
    /\ UNCHANGED <<impl, strict, now, net, crls, lockHolder, callers>>

\* The error variable the statement after the loop reads, once a responder
\* has failed with e: the Verifier assigns the function's err; the package
\* function declares a new err inside the loop body (resp, err := ...).
LoopErr(i, old, e) == IF i = "verifier" THEN e ELSE old

\* Variant: only the status "revoked" counts as revoked.
OcspVerdictRevokedOnly(status) == Verdict(status = "revoked", TRUE, Nil)

\* Variant: a failed responder never ends the loop, whatever the policy.
OcspFailedGoesOn(r, i, e) ==
    [r EXCEPT !.err = LoopErr(i, r.err, e), !.oi = @ + 1, !.pc = "ocspLoop"]

\* if resp.Status != ocsp.Good { revoked = true }
OcspVerdict(status) == Verdict(status # "good", TRUE, Nil)

\* A responder failed: strict returns the error, lenient goes on.
OcspFailed(r, i, e) ==
    IF strict THEN OcspExit(r, Verdict(FALSE, FALSE, e))
    ELSE [r EXCEPT !.err = LoopErr(i, r.err, e), !.oi = @ + 1, !.pc = "ocspLoop"]

OcspRecv(t) ==
    LET r   == th[t]
        url == r.cert.OCSPServer[r.oi] IN
    /\ r.pc = "ocspWait"
    /\ \E a \in Answers(url, OCSPResponses) :
         LET g == fetchOCSP(url, a) IN
         Step(t, IF g.err # Nil THEN OcspFailed([r EXCEPT !.ans = a], impl[t], g.err)
                 ELSE OcspExit([r EXCEPT !.ans = a], OcspVerdict(g.val)))
    /\ UNCHANGED <<impl, strict, now, net, crls, lockHolder, callers>>

\* ------------------------------------------------------------ environment
\* Time passes.  The clock is only seen where time.Now() is called, so it
\* advances right before such a read.
ReadsClock(pc) == pc \in {"validAfter", "validBefore", "crlFresh"}

Tick ==
    /\ now < MaxTime
    /\ \E t \in Threads : ReadsClock(th[t].pc)
    /\ now' = now + 1
    /\ UNCHANGED <<impl, strict, net, crls, lockHolder, callers, th>>

\* CRLSet is exported: the application may leave a nil entry in it before it
\* starts calling in (here: for the first distribution point a caller checks).
SetNilEntry(u) ==
    /\ \E t \in Threads : impl[t] # "verifier"
    /\ \A t \in Threads : th[t].pc = "idle"
    /\ \E t \in callers, x \in 1..MaxDPs :
          /\ x <= Len(th[t].cert.CRLDistributionPoints)
          /\ th[t].cert.CRLDistributionPoints[x] = u
          /\ \A y \in 1..(x - 1) : ldapURL(th[t].cert.CRLDistributionPoints[y])
    /\ \A x \in DPUrls : crls["pkg"][x] = Absent
    /\ crls' = [crls EXCEPT !["pkg"][u] = NilSlot]
    /\ UNCHANGED <<impl, strict, now, net, lockHolder, callers, th>>

\* ----------------------------------------------------------- specification
ThreadStep(t) ==
    \/ Call(t) \/ ValidAfter(t) \/ ValidBefore(t)
    \/ DpLoop(t)
    \/ CrlLock(t) \/ CrlLookup(t) \/ CrlUnlock(t) \/ CrlFresh(t)
    \/ IssLoop(t) \/ IssRecv(t)
    \/ CrlFetch(t) \/ CrlRecv(t) \/ CrlLock2(t) \/ CrlStore(t) \/ CrlUnlock2(t)
    \/ CrlScan(t) \/ CrlReturn(t)
    \/ OcspStart(t) \/ OcspReq(t) \/ OcspLoop(t) \/ OcspRecv(t)

Next ==
    \/ \E t \in Threads : ThreadStep(t)
    \/ Tick
    \/ \E u \in HttpCRLUrls : SetNilEntry(u)

\* One caller, calling again and again with one certificate.
Init ==
    /\ impl \in {[t \in Threads |-> i] : i \in Impls}
    /\ strict \in BOOLEAN
    /\ now = 0
    /\ net = [u \in AllUrls |-> Unscripted]
    /\ crls = [o \in Owners |-> [u \in DPUrls |-> Absent]]
    /\ lockHolder = [o \in Owners |-> 0]
    /\ callers = {1}
    /\ th \in {[t \in Threads |-> Frame(c, "idle")] : c \in Certs}

Spec == Init /\ [][Next]_vars

\* ------------------------------------------------------------- properties
\* What the properties read from a thread's locals and its event log.
Last(s) == s[Len(s)]
NetOps   == {"getIssuer", "getCRL", "ocsp"}
\* The position of the entry into the CRL check in progress (0: none yet).
CrlStart(log) ==
    IF \E k \in 1..Len(log) : log[k].op = "enterCRL"
    THEN CHOOSE k \in 1..Len(log) :
           /\ log[k].op = "enterCRL"
           /\ \A j \in (k + 1)..Len(log) : log[j].op # "enterCRL"
    ELSE 0
\* The responder URLs contacted so far, in the order of the requests.
Contacted(log) == SelectSeq(log, LAMBDA e : e.op = "ocsp")
\* The thread is in (or back from) the CRL check of th[t].uri.
InCRL(t) == th[t].uri # NoURL
\* The last thing the thread did on the network was an OCSP request that has
\* been answered.
OcspAnswered(t) ==
    /\ th[t].ans # Unscripted
    /\ Len(th[t].log) > 0 /\ Last(th[t].log).op = "ocsp"
    /\ th[t].pc # "ocspWait"
\* The answer is a failed fetch: no response, an unreadable body, or a status
\* outside 2xx.
FetchFails(a) == ~a.conn \/ ~a.readable \/ a.status \notin 200..299
\* The answer is a parseable OCSP response that is not an error response.
Usable(a) == a.conn /\ a.status = 200 /\ a.readable /\ a.body.fmt = "response"
\* The cache entry the check found, as the freshness test saw it.
CachedFresh(r) ==
    r.cached.state = "list" /\ r.tFresh # -1 /\ r.tFresh < r.cached.crl.NextUpdate
CachedStale(r) ==
    r.cached.state = "list" /\ r.tFresh # -1 /\ ~(r.tFresh < r.cached.crl.NextUpdate)

\* C1: when the clock read of the NotAfter test is at or after NotAfter, or the
\* clock read of the NotBefore test is at or before NotBefore, verify has
\* returned (revoked=true, checked=true, non-nil error) and has made no
\* network call and no cache access.
C1_TemporalShortCircuit ==
    \A t \in Threads :
      LET r == th[t] IN
      (\/ r.tAfter # -1 /\ r.tAfter >= r.cert.NotAfter
       \/ r.tBefore # -1 /\ r.tBefore <= r.cert.NotBefore)
      => /\ r.pc = "done"
         /\ r.res.revoked /\ r.res.ok /\ r.res.err # Nil
         /\ r.log = <<>>

C1_Witness ==
    \E t \in Threads :
      LET r == th[t] IN
      /\ r.pc = "done"
      /\ r.tAfter # -1 /\ r.tAfter < r.cert.NotAfter
      /\ r.tBefore # -1 /\ r.tBefore <= r.cert.NotBefore
      /\ r.res = Verdict(TRUE, TRUE, Err("notyet", NoURL))
      /\ r.log = <<>>

\* C2: when the fetch of the list of a distribution point that verify reached
\* fails, the CRL check has failed with a non-nil error, verify returns
\* (strict, false, that error), and nothing is done after the failed fetch:
\* no later distribution point, no OCSP.
C2_FetchFailureEndsVerify ==
    \A t \in Threads :
      LET r == th[t] IN
      (InCRL(t) /\ r.ans # Unscripted /\ FetchFails(r.ans))
      => /\ r.pc \in {"crlReturn", "done"}
         /\ r.crlRes.err # Nil /\ ~r.crlRes.ok /\ ~r.crlRes.revoked
         /\ r.pc = "done" => r.res = Verdict(strict, FALSE, r.crlRes.err)
         /\ Last(r.log) = Ev("getCRL", r.uri)
         /\ r.uri = r.cert.CRLDistributionPoints[r.di]

C2_Witness ==
    \E t \in Threads :
      LET r == th[t] IN
      /\ r.pc = "done" /\ ~strict
      /\ Len(r.cert.CRLDistributionPoints) = 2 /\ r.di = 1
      /\ Len(r.cert.OCSPServer) = 1
      /\ r.ans.conn /\ r.ans.status = 500
      /\ r.res = Verdict(FALSE, FALSE, r.crlRes.err)
      /\ Last(r.log) = Ev("getCRL", r.cert.CRLDistributionPoints[1])

\* The call passed both validity tests (their clock reads are cleared then).
PassedValidity(r) ==
    r.pc \notin {"idle", "validAfter", "validBefore"} /\ r.tAfter = -1

\* C3: when the CRL check of a distribution point that verify reached scans
\* the list it holds for it (fresh from the cache, or fetched and accepted)
\* and the list contains the certificate's serial number, the check returns
\* (true, true, nil), verify returns (true, true, nil), and no OCSP responder
\* is contacted.
C3_ScannedListedIsRevoked ==
    \A t \in Threads :
      LET r == th[t] IN
      (/\ InCRL(t)
       /\ Len(r.log) > 0 /\ Last(r.log).op = "scan"
       /\ Listed(r.cert, r.crl))
      => /\ r.pc \in {"crlReturn", "done"}
         /\ r.crlRes = Verdict(TRUE, TRUE, Nil)
         /\ r.pc = "done" => r.res = Verdict(TRUE, TRUE, Nil)
         /\ \A k \in 1..Len(r.log) : r.log[k].op \notin {"enterOCSP", "ocsp"}

C3_Witness ==
    \E t \in Threads :
      LET r == th[t] IN
      /\ r.pc = "done" /\ r.di = 2
      /\ Len(r.cert.CRLDistributionPoints) = 2 /\ Len(r.log) > 0
      /\ Len(r.cert.OCSPServer) = 1
      /\ Last(r.log) = Ev("scan", r.cert.CRLDistributionPoints[2])
      /\ r.cert.CRLDistributionPoints[1] # r.cert.CRLDistributionPoints[2]
      /\ ~ldapURL(r.cert.CRLDistributionPoints[1])
      /\ Listed(r.cert, r.crl)
      /\ r.res = Verdict(TRUE, TRUE, Nil)

\* C3 as stated: for a certificate that passed the validity tests, when the
\* list of any of its distribution points contains its serial number (the
\* list the distribution point served in this call, or the list the cache
\* holds for it), verify returns (true, true, nil) without any OCSP request.
C3_AnyListedIsRevoked ==
    \A t \in Threads :
      LET r   == th[t]
          dps == r.cert.CRLDistributionPoints IN
      (/\ r.pc = "done" /\ PassedValidity(r)
       /\ \/ /\ InCRL(t)
             /\ r.ans.conn /\ r.ans.status = 200 /\ r.ans.readable
             /\ r.ans.body.fmt = "crl" /\ Listed(r.cert, r.ans.body.crl)
          \/ \E x \in 1..Len(dps) :
               /\ crls[Owner(t)][dps[x]].state = "list"
               /\ Listed(r.cert, crls[Owner(t)][dps[x]].crl))
      => /\ r.res = Verdict(TRUE, TRUE, Nil)
         /\ Contacted(r.log) = <<>>

\* C4: whenever verify returns checked=false, its revoked result equals the
\* strict flag.
C4_UncheckedFollowsPolicy ==
    \A t \in Threads :
      (th[t].pc = "done" /\ ~th[t].res.ok) => th[t].res.revoked = strict

C4_Witness ==
    \E t \in Threads :
      LET r == th[t] IN
      /\ r.pc = "done" /\ strict
      /\ r.res.revoked /\ ~r.res.ok
      /\ Len(Contacted(r.log)) > 0

\* C5 as stated: while a thread waits for the answer to a network request
\* (issuer certificate, CRL, OCSP) it does not hold the mutex of the cache.
C5_NoNetworkUnderLock ==
    \A t \in Threads :
      th[t].pc \in {"issWait", "crlWait", "ocspWait"} => lockHolder[Owner(t)] # t

\* C6 as stated: when the cache holds a fresh list for the URL and the list
\* contains the serial number, the CRL check makes no network call of any
\* kind (no CRL fetch, no issuer fetch) and returns (true, true, nil).
C6_FreshHitNoNetwork ==
    \A t \in Threads :
      LET r == th[t]
          k == CrlStart(r.log) IN
      (InCRL(t) /\ CachedFresh(r) /\ Listed(r.cert, r.cached.crl))
      => /\ \A j \in k..Len(r.log) : j > 0 => r.log[j].op \notin NetOps
         /\ r.crlRes # NoVerdict => r.crlRes = Verdict(TRUE, TRUE, Nil)

\* C7: when the cache holds a stale list for the URL (the freshness test read a
\* time at or after its NextUpdate), the CRL check makes exactly one fetch
\* attempt for that URL, and makes it before any scan of a list; the stale
\* list is never scanned without a fetch.
C7_StaleEntryRefetched ==
    \A t \in Threads :
      LET r       == th[t]
          k       == CrlStart(r.log)
          seg     == {j \in 1..Len(r.log) : j >= k}
          fetches == {j \in seg : r.log[j].op = "getCRL"}
          scans   == {j \in seg : r.log[j].op = "scan"} IN
      (InCRL(t) /\ CachedStale(r))
      => /\ Cardinality(fetches) <= 1
         /\ \A j \in fetches : r.log[j].url = r.uri
         /\ \A j \in scans : \E f \in fetches : f < j
         /\ r.pc \notin {"issLoop", "issWait", "crlFetch"} => Cardinality(fetches) = 1

C7_Witness ==
    \E t \in Threads :
      LET r == th[t] IN
      /\ InCRL(t) /\ CachedStale(r)
      /\ r.pc = "done"
      /\ Len(r.log) > 0 /\ Last(r.log) = Ev("scan", r.uri)
      /\ Cardinality({j \in 1..Len(r.log) : r.log[j] = Ev("getCRL", r.uri)}) = 1

\* C8 as stated: when the OCSP check has returned after the last responder it
\* tried failed, it returns (false, false, err) where err is the non-nil
\* error of that last responder.
C8_AllRespondersFail ==
    \A t \in Threads :
      LET r == th[t] IN
      (r.pc = "done" /\ OcspAnswered(t) /\ ~Usable(r.ans))
      => /\ ~r.ocspRes.revoked /\ ~r.ocspRes.ok
         /\ r.ocspRes.err # Nil
         /\ r.ocspRes.err.url = Last(r.log).url

\* C9: responders are contacted in list order, each at most once; under the
\* strict policy the first failed responder ends the OCSP check with
\* (false, false, that error) and no later responder is contacted; under the
\* lenient policy the check ends in failure only after every responder has
\* been tried; no responder is contacted after a usable response.
C9_ResponderLoop ==
    \A t \in Threads :
      LET r    == th[t]
          urls == r.cert.OCSPServer
          oc   == Contacted(r.log) IN
      /\ Len(oc) <= Len(urls)
      /\ \A k \in 1..Len(oc) : oc[k].url = urls[k]
      /\ (strict /\ OcspAnswered(t) /\ ~Usable(r.ans))
         => /\ r.pc = "done" /\ Len(oc) = 1
            /\ r.ocspRes = Verdict(FALSE, FALSE, r.ocspRes.err)
            /\ r.ocspRes.err # Nil /\ r.ocspRes.err.url = urls[1]
      /\ (~strict /\ OcspAnswered(t) /\ ~Usable(r.ans))
         => /\ r.pc \in {"ocspLoop", "done"}
            /\ r.pc = "ocspLoop" => r.oi = Len(oc) + 1
            /\ r.pc = "done" => Len(oc) = Len(urls) /\ ~r.ocspRes.ok
      /\ (OcspAnswered(t) /\ Usable(r.ans)) => r.pc = "done"

C9_Witness ==
    \E t \in Threads :
      LET r == th[t] IN
      /\ strict /\ r.pc = "done"
      /\ Len(r.cert.OCSPServer) = 2
      /\ OcspAnswered(t) /\ ~Usable(r.ans)
      /\ Len(Contacted(r.log)) = 1
      /\ r.res = Verdict(TRUE, FALSE, r.ocspRes.err)

\* C10: the first usable response decides the OCSP check, whatever failed
\* before it: status good gives (false, true, nil), any other status gives
\* (true, true, nil), and verify returns the same verdict.
C10_FirstUsableDecides ==
    \A t \in Threads :
      LET r == th[t] IN
      (OcspAnswered(t) /\ Usable(r.ans))
      => /\ r.pc = "done"
         /\ r.ocspRes = Verdict(r.ans.body.ocsp # "good", TRUE, Nil)
         /\ r.res = r.ocspRes

C10_Witness ==
    \E t \in Threads :
      LET r == th[t] IN
      /\ ~strict /\ r.pc = "done"
      /\ OcspAnswered(t) /\ Usable(r.ans) /\ r.ans.body.ocsp = "unknown"
      /\ Len(Contacted(r.log)) = 2
      /\ r.res = Verdict(TRUE, TRUE, Nil)

\* The position of the entry into the OCSP check (0: not entered).
OcspStartPos(log) ==
    IF \E k \in 1..Len(log) : log[k].op = "enterOCSP"
    THEN CHOOSE k \in 1..Len(log) : log[k].op = "enterOCSP"
    ELSE 0
\* The issuer-certificate URLs requested by the OCSP check, in order.
OcspIssuerRequests(log) ==
    SelectSeq(SubSeq(log, OcspStartPos(log) + 1, Len(log)),
              LAMBDA e : e.op = "getIssuer")

\* C11: an OCSP check of a certificate with responder URLs that has tried
\* every issuing-certificate URL without obtaining an issuer returns
\* (false, false, nil) and contacts no responder; an OCSP check of a
\* certificate without responder URLs returns (false, true, nil) and requests
\* no issuing-certificate URL.
C11_OcspWithoutIssuerOrResponders ==
    \A t \in Threads :
      LET r == th[t] IN
      /\ (/\ OcspStartPos(r.log) > 0
          /\ Len(r.cert.OCSPServer) > 0
          /\ r.pc \notin {"issLoop", "issWait", "ocspReq"}
          /\ r.issuer = "none")
         => /\ r.pc = "done"
            /\ r.ocspRes = Verdict(FALSE, FALSE, Nil)
            /\ Contacted(r.log) = <<>>
            /\ Len(OcspIssuerRequests(r.log)) = Len(r.cert.IssuingCertificateURL)
      /\ (OcspStartPos(r.log) > 0 /\ Len(r.cert.OCSPServer) = 0)
         => /\ r.pc = "done"
            /\ r.ocspRes = Verdict(FALSE, TRUE, Nil)
            /\ OcspIssuerRequests(r.log) = <<>>
            /\ Contacted(r.log) = <<>>

C11_Witness ==
    \E t \in Threads :
      LET r == th[t] IN
      /\ r.pc = "done" /\ OcspStartPos(r.log) > 0
      /\ Len(r.cert.OCSPServer) > 0
      /\ Len(r.cert.IssuingCertificateURL) > 0
      /\ r.issuer = "none"
      /\ Len(OcspIssuerRequests(r.log)) = Len(r.cert.IssuingCertificateURL)
      /\ r.ocspRes = Verdict(FALSE, FALSE, Nil)

\* The answer delivers a revocation list: a response with a status below 300,
\* a readable body and bytes that parse as a list.
DeliversList(a) == a.conn /\ a.readable /\ a.status \in 200..299 /\ a.body.fmt = "crl"
\* The events of the CRL check in progress, from its entry on.
CrlEvents(log) == SubSeq(log, CrlStart(log), Len(log))
\* The CRL check of th[t].uri has returned to the orchestrator (or is about
\* to, with the deferred unlock pending).
CrlReturned(t) == InCRL(t) /\ th[t].pc \in {"crlReturn", "dpLoop", "done"}

\* C12: when the issuer is resolved and the list just fetched is not signed by
\* it, the CRL check returns (false, false, non-nil error) under either
\* policy, and the list is neither scanned nor stored; when no issuer is
\* resolved, a fetched list is stored and then scanned, and the scan decides.
C12_SignatureGate ==
    \A t \in Threads :
      LET r   == th[t]
          evs == CrlEvents(r.log) IN
      /\ (/\ InCRL(t) /\ DeliversList(r.ans)
          /\ r.issuer # "none" /\ r.ans.body.crl.signer # r.issuer)
         => /\ r.pc \in {"crlReturn", "done"}
            /\ ~r.crlRes.revoked /\ ~r.crlRes.ok /\ r.crlRes.err # Nil
            /\ r.pc = "done" => r.res = Verdict(strict, FALSE, r.crlRes.err)
            /\ \A k \in 1..Len(evs) : evs[k].op \notin {"scan", "cacheWrite"}
      /\ (/\ CrlReturned(t) /\ DeliversList(r.ans)
          /\ r.issuer = "none")
         => /\ r.crlRes = Verdict(Listed(r.cert, r.ans.body.crl), TRUE, Nil)
            /\ Len(evs) >= 2
            /\ evs[Len(evs) - 1] = Ev("cacheWrite", r.uri)
            /\ evs[Len(evs)] = Ev("scan", r.uri)
            /\ crls[Owner(t)][r.uri] = Slot("list", r.ans.body.crl)

C12_Witness ==
    \E t \in Threads :
      LET r == th[t] IN
      /\ r.pc = "done" /\ strict
      /\ InCRL(t) /\ DeliversList(r.ans)
      /\ r.issuer # "none" /\ r.ans.body.crl.signer # r.issuer
      /\ Listed(r.cert, r.ans.body.crl)
      /\ r.res = Verdict(TRUE, FALSE, Err("signature", r.uri))

\* Every distribution point of the certificate (if any) has the ldap scheme.
OnlyLdapPoints(cert) ==
    \A x \in 1..Len(cert.CRLDistributionPoints) :
      cert.CRLDistributionPoints[x].scheme = "ldap"

\* C13: for a certificate whose distribution points are none or all ldap, no
\* CRL check is entered, no CRL is fetched and the cache is neither read nor
\* changed; if it also has no OCSP responder URLs and passed the validity
\* tests, verify returns (false, true, nil) under either policy.
C13_NothingToCheck ==
    \A t \in callers :
      LET r == th[t] IN
      OnlyLdapPoints(r.cert)
      => /\ \A k \in 1..Len(r.log) :
               r.log[k].op \notin {"enterCRL", "cacheRead", "cacheDelete",
                                   "cacheWrite", "getCRL", "scan"}
         /\ \A u \in DPUrls : crls[Owner(t)][u] = Absent
         /\ (r.pc = "done" /\ PassedValidity(r) /\ Len(r.cert.OCSPServer) = 0)
            => /\ r.res = Verdict(FALSE, TRUE, Nil)
               /\ r.log = <<Ev("enterOCSP", NoURL)>>

C13_Witness ==
    \E t \in callers :
      LET r == th[t] IN
      /\ r.pc = "done" /\ PassedValidity(r) /\ strict
      /\ Len(r.cert.CRLDistributionPoints) = 2 /\ OnlyLdapPoints(r.cert)
      /\ Len(r.cert.OCSPServer) = 0
      /\ r.res = Verdict(FALSE, TRUE, Nil)

\* The sequence of network requests of the call, in order.
Requests(log) == SelectSeq(log, LAMBDA e : e.op \in NetOps)
\* The distribution points of the certificate are pairwise different URLs.
DistinctPoints(cert) ==
    \A x, y \in 1..Len(cert.CRLDistributionPoints) :
      x # y => cert.CRLDistributionPoints[x] # cert.CRLDistributionPoints[y]

\* C14 as stated: within one invocation of verify (on a certificate that
\* names no URL twice) no URL is requested more than once.
C14_NoUrlRequestedTwice ==
    \A t \in Threads :
      LET rq == Requests(th[t].log) IN
      DistinctPoints(th[t].cert)
      => \A j, k \in 1..Len(rq) : j # k => rq[j].url # rq[k].url

\* The answer is a transport error: no response, or a status outside 2xx.
TransportError(a) == a # Unscripted /\ (~a.conn \/ a.status \notin 200..299)

\* C15: a transport error on a CRL distribution point ends verify under
\* either policy, with (strict, false, that error) and nothing done after the
\* failed request; a transport error on an OCSP responder ends verify only
\* under the strict policy, and under the lenient policy the check moves on
\* to the next responder.
C15_TransportErrors ==
    \A t \in Threads :
      LET r == th[t] IN
      /\ (InCRL(t) /\ TransportError(r.ans))
         => /\ r.pc \in {"crlReturn", "done"}
            /\ r.crlRes.err.kind \in {"transport", "status", "read"}
            /\ r.pc = "done" => /\ r.res = Verdict(strict, FALSE, r.crlRes.err)
                                /\ Last(r.log) = Ev("getCRL", r.uri)
      /\ (OcspAnswered(t) /\ TransportError(r.ans) /\ strict)
         => /\ r.pc = "done"
            /\ r.res = Verdict(TRUE, FALSE, r.ocspRes.err)
            /\ r.ocspRes.err.kind \in {"transport", "status"}
      /\ (OcspAnswered(t) /\ TransportError(r.ans) /\ ~strict)
         => \/ r.pc = "ocspLoop" /\ r.oi = Len(Contacted(r.log)) + 1
            \/ r.pc = "done" /\ Len(Contacted(r.log)) = Len(r.cert.OCSPServer)

C15_Witness ==
    \E t \in Threads :
      LET r == th[t] IN
      /\ r.pc = "done" /\ ~strict
      /\ InCRL(t) /\ ~r.ans.conn /\ r.ans # Unscripted
      /\ Len(r.cert.CRLDistributionPoints) = 2 /\ r.di = 1
      /\ Len(r.cert.OCSPServer) = 1
      /\ r.res = Verdict(FALSE, FALSE, Err("transport", r.uri))

\* C15 as stated: under the lenient policy a transport error on a CRL
\* distribution point does not make verify return there (it goes on to the
\* next distribution point or to OCSP).
C15_LenientCrlFallsBack ==
    \A t \in Threads :
      (~strict /\ InCRL(t) /\ TransportError(th[t].ans)) => th[t].pc # "done"

\* ------------------------------------------------- concurrent specification
\* Two goroutines call in concurrently, again and again, with the same
\* certificate: one distribution point, one issuing-certificate URL and one
\* responder.  The issuer URL and the responder answer every request the same
\* way; the distribution point may answer each request differently.
ConcCerts ==
    {c \in Certs : /\ c.CRLDistributionPoints = <<CRLUrl(1)>>
                   /\ Len(c.OCSPServer) = 1
                   /\ Len(c.IssuingCertificateURL) = 1
                   /\ c.NotBefore = 0 /\ c.NotAfter = MaxTime}

InitConc ==
    /\ impl \in {[t \in Threads |-> i] : i \in Impls}
    /\ strict \in BOOLEAN
    /\ now = 0
    /\ net \in {[u \in AllUrls |->
                   IF u = IssuerUrl(1) THEN Resp(TRUE, 200, TRUE, CertBody("pem", "CA1"))
                   ELSE IF u = OCSPUrl(1) THEN o
                   ELSE Unscripted] :
                 o \in {ConnFail, Resp(TRUE, 200, TRUE, OCSPBody("response", "good"))}}
    /\ crls = [o \in Owners |-> [u \in DPUrls |-> Absent]]
    /\ lockHolder = [o \in Owners |-> 0]
    /\ callers = Threads
    /\ th \in {[t \in Threads |-> Frame(c, "idle")] : c \in ConcCerts}

SpecConc == InitConc /\ [][Next]_vars

\* Where a thread is when its next step reads, deletes from or writes the map.
AtCacheOp(t) == th[t].pc \in {"crlLookup", "crlStore"}
\* Where a thread is when it is outside the CRL check.
OutsideCrlCheck(t) ==
    \/ th[t].pc \in {"idle", "validAfter", "validBefore", "dpLoop", "done",
                     "ocspStart", "ocspReq", "ocspLoop", "ocspWait"}
    \/ th[t].pc \in {"issLoop", "issWait"} /\ th[t].after = "ocspReq"

\* C16: a thread about to read, delete from or write the CRL map holds the
\* lock of that map; no two threads of one owner are at a map operation at
\* the same time; a thread that is outside the CRL check (it has not entered
\* it, or has returned from it, with or without error) does not hold the lock.
C16_CacheUnderLock ==
    /\ \A t \in Threads : AtCacheOp(t) => lockHolder[Owner(t)] = t
    /\ \A t1, t2 \in Threads :
         (t1 # t2 /\ Owner(t1) = Owner(t2)) => ~(AtCacheOp(t1) /\ AtCacheOp(t2))
    /\ \A t \in Threads : OutsideCrlCheck(t) => lockHolder[Owner(t)] # t

C16_Witness ==
    \E t1, t2 \in Threads :
      /\ t1 # t2
      /\ th[t1].pc = "crlStore" /\ lockHolder[Owner(t1)] = t1
      /\ th[t2].pc \in {"crlLock", "crlLock2"}
      /\ th[t2].log # <<>> /\ th[t1].uri = th[t2].uri

\* C17: a list whose scan gives a checked verdict is the cached list, found
\* fresh at the freshness test and used without a fetch, or the list
\* delivered by the fetch of this same check; when the cached list is stale
\* and the fetch does not deliver a list, the check returns (false, false,
\* non-nil error) without a scan, also when the stale list contains the
\* serial number.
C17_ScannedListIsCurrent ==
    \A t \in Threads :
      LET r       == th[t]
          evs     == CrlEvents(r.log)
          fetched == \E k \in 1..Len(evs) : evs[k] = Ev("getCRL", r.uri) IN
      /\ (InCRL(t) /\ Len(r.log) > 0 /\ Last(r.log).op = "scan")
         => /\ r.crlRes.ok /\ r.crlRes.revoked = Listed(r.cert, r.crl)
            /\ \/ CachedFresh(r) /\ r.crl = r.cached.crl /\ ~fetched
               \/ DeliversList(r.ans) /\ r.crl = r.ans.body.crl /\ fetched
      /\ (InCRL(t) /\ CachedStale(r) /\ r.ans # Unscripted /\ ~DeliversList(r.ans))
         => /\ r.pc \in {"crlReturn", "done"}
            /\ ~r.crlRes.ok /\ ~r.crlRes.revoked /\ r.crlRes.err # Nil
            /\ \A k \in 1..Len(evs) : evs[k].op # "scan"
            /\ r.pc = "done" => ~r.res.ok /\ r.res.err # Nil

C17_Witness ==
    \E t \in Threads :
      LET r == th[t] IN
      /\ r.pc = "done" /\ InCRL(t)
      /\ CachedStale(r) /\ Listed(r.cert, r.cached.crl)
      /\ r.ans # Unscripted /\ ~DeliversList(r.ans)
      /\ r.res = Verdict(strict, FALSE, r.crlRes.err)

\* C18 as stated: whenever verify returns checked=false, the error of its
\* verdict is non-nil.  (Stated here for the returns that follow a failed
\* step with an error of its own: the return of the OCSP check for an
\* unresolved issuer, which has a nil error in every build, is left aside.)
C18_FailureCarriesError ==
    \A t \in Threads :
      LET r == th[t] IN
      (/\ r.pc = "done" /\ ~r.res.ok
       /\ ~(OcspStartPos(r.log) > 0 /\ r.issuer = "none"))
      => r.res.err # Nil

\* C19: the cache of the Verifier changes only in the store of a check that
\* fetched a list in this call: the store replaces the entry of the checked
\* URL by that list and leaves every other entry alone; a check that used a
\* fresh cached list, and a check that returns checked=false, have not written
\* or deleted anything and leave the entry of the URL as they found it.
C19_VerifierCacheFrame ==
    /\ [][crls'["verifier"] # crls["verifier"]
          => \E t \in Threads :
               LET r == th[t] IN
               /\ impl[t] = "verifier" /\ r.pc = "crlStore"
               /\ r.shouldFetchCRL /\ DeliversList(r.ans) /\ r.crl = r.ans.body.crl
               /\ crls' = [crls EXCEPT !["verifier"][r.uri] = Slot("list", r.crl)]]_vars
    /\ [](\A t \in Threads :
            LET r   == th[t]
                evs == CrlEvents(r.log) IN
            (/\ impl[t] = "verifier" /\ CrlReturned(t)
             /\ ~r.crlRes.ok \/ ~r.shouldFetchCRL)
            => /\ \A k \in 1..Len(evs) : evs[k].op \notin {"cacheWrite", "cacheDelete"}
               /\ crls["verifier"][r.uri] = r.cached)

C19_Witness ==
    \E t \in Threads :
      LET r == th[t] IN
      /\ impl[t] = "verifier" /\ r.pc = "done" /\ InCRL(t)
      /\ ~r.crlRes.ok /\ r.crlRes.err.kind = "signature"
      /\ r.cached.state = "list" /\ crls["verifier"][r.uri] = r.cached
      /\ r.ans.body.crl # r.cached.crl

\* ------------------------------------------------ side-by-side specification
\* The package-level VerifyCertificateError (thread 1) and then
\* Verifier.CertificateValid (thread 2) are each called once with the same
\* certificate, the same policy and the same clock, from equal cache contents,
\* against a network in which every URL of the certificate has one answer.
EqCerts ==
    {c \in Certs : /\ c.CRLDistributionPoints \in {<<>>, <<CRLUrl(1)>>}
                   /\ Len(c.OCSPServer) <= 2
                   /\ Len(c.IssuingCertificateURL) <= 1
                   /\ c.NotBefore = 0 /\ c.NotAfter = MaxTime}
EqCRLAnswers ==
    {ConnFail, Resp(TRUE, 200, FALSE, Garbage)}
    \cup {Resp(TRUE, 500, TRUE, CRLBody(l)) : l \in {List(2, <<9, 7>>, "CA1")}}
    \cup {Resp(TRUE, 200, TRUE, CRLBody(l)) : l \in Lists}
EqCertAnswers ==
    {ConnFail, Resp(TRUE, 200, TRUE, CertBody("pem", "CA1")),
     Resp(TRUE, 404, TRUE, CertBody("der", "CA2"))}
EqOCSPAnswers ==
    {ConnFail, Resp(TRUE, 200, TRUE, OCSPBody("error", "unauthorized")),
     Resp(TRUE, 200, TRUE, OCSPBody("response", "good")),
     Resp(TRUE, 200, TRUE, OCSPBody("response", "revoked"))}
\* The scripts for certificate c: one answer for each URL it names.
Names(urls, u) == \E x \in 1..Len(urls) : urls[x] = u
ScriptFor(urls, u, answers) == IF Names(urls, u) THEN answers ELSE {Unscripted}
Scripts(c) ==
    {[u \in AllUrls |-> IF u = CRLUrl(1) THEN a
                        ELSE IF u = OCSPUrl(1) THEN o1
                        ELSE IF u = OCSPUrl(2) THEN o2
                        ELSE IF u = IssuerUrl(1) THEN i
                        ELSE Unscripted] :
       a  \in ScriptFor(c.CRLDistributionPoints, CRLUrl(1), EqCRLAnswers),
       o1 \in ScriptFor(c.OCSPServer, OCSPUrl(1), EqOCSPAnswers),
       o2 \in ScriptFor(c.OCSPServer, OCSPUrl(2), EqOCSPAnswers),
       i  \in ScriptFor(c.IssuingCertificateURL, IssuerUrl(1), EqCertAnswers)}
\* Cache contents: nothing, or a list for the first distribution point.
EqCaches ==
    {[u \in DPUrls |-> IF u = CRLUrl(1) THEN e ELSE Absent] :
       e \in {Absent} \cup {Slot("list", l) : l \in Lists}}

InitEq ==
    /\ impl \in {[t \in Threads |-> IF t = 1 THEN i ELSE "verifier"] :
                   i \in {"package", "legacy"}}
    /\ strict \in BOOLEAN
    /\ now \in Times
    /\ \E c \in EqCerts :
         /\ th = [t \in Threads |-> Frame(c, "idle")]
         /\ net \in Scripts(c)
    /\ \E m \in EqCaches : crls = [o \in Owners |-> m]
    /\ lockHolder = [o \in Owners |-> 0]
    /\ callers = Threads

\* Whose turn it is: the package call runs to its return, then the Verifier's.
Turn == IF th[1].pc # "done" THEN {1} ELSE IF th[2].pc # "done" THEN {2} ELSE {}

NextEq == \E t \in Turn : ThreadStep(t)

SpecEq == InitEq /\ [][NextEq]_vars

\* Both calls have returned, and ocsp.CreateRequest gave both the same outcome.
BothReturned ==
    /\ \A t \in Threads : th[t].pc = "done"
    /\ (th[1].ocspRes.err.kind = "request") <=> (th[2].ocspRes.err.kind = "request")

\* The (revoked, checked, error-is-nil) triple a call returned.
Triple(r) == <<r.res.revoked, r.res.ok, r.res.err = Nil>>

\* C20: run one after the other from equal caches, with the same certificate,
\* the same strict flag and the same answer of every URL, the package-level
\* VerifyCertificateError and Verifier.CertificateValid return the same
\* (revoked, checked, error-is-nil) triple, send the same sequence of network
\* requests and leave equal cache contents.
C20_SameBehaviour ==
    BothReturned =>
        /\ Triple(th[1]) = Triple(th[2])
        /\ Requests(th[1].log) = Requests(th[2].log)
        /\ crls["pkg"] = crls["verifier"]

====
